---- MODULE Spec2Model ----
(***************************************************************************)
(* my-mcp-server: a stdio MCP server (src/index.ts, src/tools) and the     *)
(* terminal client that drives a Gemini chat session with function calling *)
(* against it (src/client/index.ts).                                       *)
(*                                                                         *)
(* Two processes are modelled.  The server takes requests from its stdin   *)
(* pipe (toServer), runs the handler registered for the method and writes  *)
(* one response to its stdout pipe (toClient).  The client is the callback *)
(* of rl.question in askQuestion: every `await` of the source is a point   *)
(* where the callback is suspended, and one action of the model is the     *)
(* code that runs between two such points.                                 *)
(*                                                                         *)
(* Spec is the client with the server as its child process, from the start *)
(* of the client process on, with a user who asks one question.  SpecLive  *)
(* is Spec under fair scheduling.  SpecChat is the same client over a      *)
(* session of several questions, with a model that asks for fewer kinds of *)
(* calls.  SpecServer is the server under an arbitrary host that sends     *)
(* tools, resources and prompts requests.  SpecTranslate is the schema     *)
(* translator of the client over the tool declarations a server may list.  *)
(***************************************************************************)
EXTENDS Integers, Sequences, FiniteSets, TLC

VARIABLES
    \* ---- server process and the two pipes ----
    toServer,      \* requests written by the client/host, not yet read by the server
    toClient,      \* responses written by the server, not yet read by the client/host
    timers,        \* get_weather calls suspended in their setTimeout (part_000:76)
    diag,          \* lines the server wrote to stderr since the last request was issued
    handlerCalls,  \* tool handlers entered since the last request was issued
    logicRuns,     \* tool handlers that got past validation since the last request was issued
    hostGot,       \* SpecServer only: the response the host read for its last request
    failures,      \* SpecServer only: error responses the host has read since the server started
    srv,           \* the server process: "off", "starting", "running" or "exited"
    srvExit,       \* exit status of the server process once it has exited
    stdoutWrites,  \* lines the server's own code wrote to stdout, outside the transport
    registry,      \* the tool declarations the server module holds (src/index.ts:78)
    \* ---- client process: startup (module body and main) ----
    apiKey,        \* process.env.GEMINI_API_KEY as read when the module loads
    exitCode,      \* status the client passed to process.exit, 0 while it runs
    spawned,       \* the transport has started the server child process
    mcpTools,      \* the tool declarations listTools returned
    translated,    \* the results of the runs of mcpTools.map(mcpToolToGeminiFn), in order
    \* ---- client process (askQuestion) ----
    pc,            \* where the rl.question callback is suspended
    connected,     \* the MCP client transport is open
    pendingModel,  \* the message chat.sendMessage is awaiting an answer for
    functionCalls, \* candidate.functionCalls() of the response being processed
    callIdx,       \* position of the for-of loop over functionCalls
    toolResults,   \* the toolResults array of the current round
    round,         \* model responses with function calls received in this turn
    sent,          \* this turn: messages handed to chat.sendMessage, in order
    received,      \* this turn: model responses received, in order
    invoked,       \* this round: tool calls issued to the server with their outcome
    console,       \* this turn: lines written by console.log / console.error
    \* ---- the chat session (model.startChat()) and the two people at its ends ----
    history,       \* the contents the chat session holds, oldest first
    repertoire,    \* the function calls the model may come to request
    turnsLeft,     \* questions the user will still ask
    asking,        \* rl.question calls whose callback has not run yet
    userInput      \* the line the running callback was called with, if it runs

procVars == <<failures, srv, srvExit, stdoutWrites, registry>>
serverVars == <<toServer, toClient, timers, diag, handlerCalls, logicRuns, hostGot,
                failures, srv, srvExit, stdoutWrites, registry>>
startVars == <<apiKey, exitCode, spawned, mcpTools, translated>>
sessionVars == <<history, repertoire, turnsLeft, asking, userInput>>
clientVars == <<history, repertoire, turnsLeft, asking, userInput, apiKey, exitCode, spawned, mcpTools, translated, pc, connected, pendingModel, functionCalls, callIdx, toolResults,
                round, sent, received, invoked, console>>
vars == <<toServer, toClient, timers, diag, handlerCalls, logicRuns, hostGot,
          failures, srv, srvExit, stdoutWrites, registry,
          apiKey, exitCode, spawned, mcpTools, translated,
          pc, connected, pendingModel, functionCalls, callIdx, toolResults,
          round, sent, received, invoked, console,
          history, repertoire, turnsLeft, asking, userInput>>

(***************************************************************************)
(* Bounds of the model.                                                    *)
(***************************************************************************)
\* most function calls one model response carries
MaxCalls == 2
\* most tool rounds the model asks for in one turn
MaxRounds == 2
\* error responses counted before the count saturates
MaxFailures == 2
\* most runs of the schema translator over the same declarations
MaxTranslations == 2
\* most questions the user asks in one session
MaxTurns == 2

(***************************************************************************)
(* JSON values.  A value carries its JavaScript type; a key that is absent *)
(* from an object reads as undefined, which is how zod sees it.            *)
(***************************************************************************)
Undefined == [t |-> "undefined", n |-> 0, s |-> ""]
JNull == [t |-> "null", n |-> 0, s |-> ""]
JNum(n) == [t |-> "number", n |-> n, s |-> ""]
JStr(s) == [t |-> "string", n |-> 0, s |-> s]

Fields == {"operation", "a", "b", "city", "unit", "language", "focus", "concept", "level"}
EmptyArgs == [f \in Fields |-> Undefined]
Args(op, a, b, city, unit) ==
    [EmptyArgs EXCEPT !.operation = op, !.a = a, !.b = b, !.city = city, !.unit = unit]
PromptArgs(language, focus, concept, level) ==
    [EmptyArgs EXCEPT !.language = language, !.focus = focus,
                      !.concept = concept, !.level = level]

(***************************************************************************)
(* String functions of JavaScript, tabulated on the strings the model uses.*)
(***************************************************************************)
CityStrings == {"", "Tokyo", "tokyo", "LONDON", "Atlantis"}

ToLowerCase(s) ==
    CASE s = "Tokyo" -> "tokyo"
      [] s = "LONDON" -> "london"
      [] s = "Atlantis" -> "atlantis"
      [] s = "Calculator" -> "calculator"
      [] s = "CALCULATOR" -> "calculator"
      [] s = "GET_WEATHER" -> "get_weather"
      [] s = "EXIT" -> "exit"
      [] s = " Exit " -> " exit "
      [] OTHER -> s

\* city.charAt(0).toUpperCase() + city.slice(1)
Capitalize(s) ==
    CASE s = "tokyo" -> "Tokyo"
      [] OTHER -> s

(***************************************************************************)
(* zod: every check yields the set of issues it raises, an issue being the *)
(* path of the offending key and the issue code.  parsed.error.message is  *)
(* the JSON text of that list, so the message names exactly these paths.   *)
(***************************************************************************)
Issue(path, code) == [path |-> path, code |-> code]

ZNumberLoose(path, v) ==
    IF v.t = "undefined" THEN {Issue(path, "invalid_type")} ELSE {}

ZNumber(path, v) ==
    IF v.t # "number" THEN {Issue(path, "invalid_type")} ELSE {}

ZEnum(allowed, path, v) ==
    IF v.t # "string" THEN {Issue(path, "invalid_type")}
    ELSE IF v.s \notin allowed THEN {Issue(path, "invalid_enum_value")}
    ELSE {}

ZStringMin1(path, v) ==
    IF v.t # "string" THEN {Issue(path, "invalid_type")}
    ELSE IF Len(v.s) < 1 THEN {Issue(path, "too_small")}
    ELSE {}

\* z.enum(...).default(d): undefined is replaced by d before the enum is checked
ZEnumDefault(allowed, path, v) ==
    IF v.t = "undefined" THEN {} ELSE ZEnum(allowed, path, v)

OperationEnum == {"add", "subtract", "multiply", "divide"}
UnitEnum == {"celsius", "fahrenheit"}

\* z.object(...).safeParse(args): a non-object fails at the root path
CalculatorInputSchema(hasArgs, args) ==
    IF ~hasArgs THEN {Issue("", "invalid_type")}
    ELSE ZEnum(OperationEnum, "operation", args.operation)
         \cup ZNumber("a", args.a)
         \cup ZNumber("b", args.b)

WeatherInputSchema(hasArgs, args) ==
    IF ~hasArgs THEN {Issue("", "invalid_type")}
    ELSE ZStringMin1("city", args.city)
         \cup ZEnumDefault(UnitEnum, "unit", args.unit)

(***************************************************************************)
(* Tool declarations: what tools/list returns (what the model sees).       *)
(***************************************************************************)
calculatorToolDefinition ==
    [name |-> "calculator",
     description |-> "Perform basic arithmetic operations: add, subtract, multiply, or divide two numbers.",
     inputSchema |->
        [type |-> "object",
         properties |->
            [operation |-> [type |-> "string", hasEnum |-> TRUE,
                            enum |-> <<"add", "subtract", "multiply", "divide">>,
                            description |-> "The arithmetic operation to perform"],
             a |-> [type |-> "number", hasEnum |-> FALSE, enum |-> <<>>,
                    description |-> "The first number"],
             b |-> [type |-> "number", hasEnum |-> FALSE, enum |-> <<>>,
                    description |-> "The second number"]],
         required |-> <<"operation", "a", "b">>]]

weatherToolDefinition ==
    [name |-> "get_weather",
     description |-> "Get the current weather for a city. Returns temperature, humidity, and conditions.",
     inputSchema |->
        [type |-> "object",
         properties |->
            [city |-> [type |-> "string", hasEnum |-> FALSE, enum |-> <<>>,
                       description |-> "Name of the city to get weather for"],
             unit |-> [type |-> "string", hasEnum |-> TRUE,
                       enum |-> <<"celsius", "fahrenheit">>,
                       description |-> "Temperature unit (default: celsius)"]],
         required |-> <<"city">>]]

\* the tools/list handler
ListToolsCalculatorOnly == <<calculatorToolDefinition>>

\* tools: [calculatorToolDefinition, weatherToolDefinition]
ListTools == <<calculatorToolDefinition, weatherToolDefinition>>

Range(seq) == {seq[i] : i \in DOMAIN seq}

RegisteredToolNames == {ListTools[i].name : i \in DOMAIN ListTools}

ToolDefinition(name) ==
    ListTools[CHOOSE i \in DOMAIN ListTools : ListTools[i].name = name]

(***************************************************************************)
(* The schema translator of the client: MCP tool declaration to Gemini     *)
(* FunctionDeclaration.  An optional key of the input (description,        *)
(* properties, required) is a field the record has or lacks; enum is       *)
(* carried with its hasEnum flag as in the declarations above.             *)
(***************************************************************************)
\* the object literal `map`
TypeMap ==
    [string |-> "STRING", number |-> "NUMBER", integer |-> "INTEGER",
     boolean |-> "BOOLEAN", array |-> "ARRAY", object |-> "OBJECT"]

\* `map` is a plain object: a key it does not own is looked up on
\* Object.prototype, whose members are functions or objects, never nullish.
ObjectPrototypeKeys ==
    {"constructor", "toString", "toLocaleString", "valueOf", "hasOwnProperty",
     "isPrototypeOf", "propertyIsEnumerable", "__proto__"}

\* map[type] ?? SchemaType.STRING
toGeminiSchemaType(type) ==
    IF type \in DOMAIN TypeMap THEN TypeMap[type]
    ELSE IF type \in ObjectPrototypeKeys THEN "[member of Object.prototype]"
    ELSE "STRING"

Has(object, key) == key \in DOMAIN object

EmptyObject == [key \in {} |-> ""]

GeminiPropertyEnumAlways(val) ==
    [type |-> toGeminiSchemaType(val.type),
     description |-> IF Has(val, "description") THEN val.description ELSE "",
     hasEnum |-> TRUE,
     enum |-> IF val.hasEnum THEN val.enum ELSE <<>>]

\* the object assigned to parameters.properties[key]
GeminiProperty(val) ==
    [type |-> toGeminiSchemaType(val.type),
     description |-> IF Has(val, "description") THEN val.description ELSE "",
     hasEnum |-> val.hasEnum,
     enum |-> IF val.hasEnum THEN val.enum ELSE <<>>]

mcpToolToGeminiFnEnumsOnly(tool) ==
    LET schema == tool.inputSchema
        kept == {key \in DOMAIN schema.properties : schema.properties[key].hasEnum}
    IN  [name |-> tool.name,
         description |-> tool.description,
         parameters |->
            [type |-> "OBJECT",
             properties |-> [key \in kept |-> GeminiProperty(schema.properties[key])],
             required |-> schema.required]]

mcpToolToGeminiFn(tool) ==
    LET schema == tool.inputSchema
    IN  [name |-> tool.name,
         description |-> IF Has(tool, "description") THEN tool.description ELSE "",
         parameters |->
            [type |-> "OBJECT",
             properties |->
                IF Has(schema, "properties")
                THEN [key \in DOMAIN schema.properties |->
                         GeminiProperty(schema.properties[key])]
                ELSE EmptyObject,
             required |-> IF Has(schema, "required") THEN schema.required ELSE <<>>]]

\* mcpTools.map(mcpToolToGeminiFn)
GeminiTools(tools) == [i \in DOMAIN tools |-> mcpToolToGeminiFn(tools[i])]

InputAfterDefaultingRequired(tools) ==
    [i \in DOMAIN tools |->
        [tools[i] EXCEPT !.inputSchema = @ @@ [required |-> <<>>]]]

\* The declarations after a run of the translator: it reads tool and schema
\* and assigns only to its own `parameters` object.
InputAfter(tools) == tools

\* ---- tool declarations a server may list ----
TypeStrings ==
    {"string", "number", "integer", "boolean", "array", "object",
     "date", "String", "", "constructor"}

PropertyDecls ==
    {[type |-> t, hasEnum |-> FALSE, enum |-> <<>>] : t \in TypeStrings}
    \cup {[type |-> t, hasEnum |-> FALSE, enum |-> <<>>, description |-> "The first number"] :
            t \in TypeStrings}
    \cup {[type |-> "string", hasEnum |-> TRUE, enum |-> <<"celsius", "fahrenheit">>,
           description |-> "Temperature unit"],
          [type |-> "string", hasEnum |-> TRUE, enum |-> <<"all">>]}

InputSchemas ==
    LET PropertyMaps == UNION {[keys -> PropertyDecls] : keys \in SUBSET {"p", "q"}}
        RequiredLists == {<<>>, <<"p">>, <<"q", "p">>}
    IN  {[type |-> "object"]}
        \cup {[type |-> "object", properties |-> ps] : ps \in PropertyMaps}
        \cup {[type |-> "object", required |-> rs] : rs \in RequiredLists}
        \cup {[type |-> "object", properties |-> ps, required |-> rs] :
                ps \in PropertyMaps, rs \in RequiredLists}

ToolDeclarations ==
    {[name |-> "lookup", inputSchema |-> schema] : schema \in InputSchemas}
    \cup {[name |-> "lookup", description |-> "Look something up.", inputSchema |-> schema] :
            schema \in InputSchemas}

\* One run of mcpTools.map(mcpToolToGeminiFn).
Translate ==
    /\ pc = "translate"
    /\ Len(translated) < MaxTranslations
    /\ translated' = Append(translated, GeminiTools(mcpTools))
    /\ mcpTools' = InputAfter(mcpTools)
    /\ UNCHANGED <<serverVars, sessionVars, apiKey, exitCode, spawned, pc, connected, pendingModel,
                   functionCalls, callIdx, toolResults, round, sent, received, invoked,
                   console>>

(***************************************************************************)
(* Results and errors.  A handler either returns {content: [...]} or       *)
(* throws an McpError(code, message); the SDK turns a throw into a JSON-RPC*)
(* error response, which makes the caller's request promise reject.        *)
(***************************************************************************)
NoMessage == [text |-> "", issues |-> {}, name |-> ""]
NoText == [kind |-> "", a |-> 0, operation |-> "", b |-> 0, num |-> 0, den |-> 1,
           city |-> "", temperature |-> 0, unitSymbol |-> "", humidity |-> 0,
           condition |-> ""]

Return(content) ==
    [ok |-> TRUE, code |-> "", message |-> NoMessage, content |-> content,
     tools |-> <<>>, contents |-> <<>>, messages |-> <<>>, resources |-> <<>>]
Throw(code, message) ==
    [ok |-> FALSE, code |-> code, message |-> message, content |-> <<>>,
     tools |-> <<>>, contents |-> <<>>, messages |-> <<>>, resources |-> <<>>]
TextItem(text) == [type |-> "text", text |-> text]

Abs(x) == IF x < 0 THEN -x ELSE x

RECURSIVE GCD(_, _)
GCD(x, y) == IF y = 0 THEN x ELSE GCD(y, x % y)

QuotientTruncated(a, b) == [num |-> a \div b, den |-> 1]

\* a / b for b # 0, kept exact as a reduced fraction with a positive denominator
Quotient(a, b) ==
    LET g == GCD(Abs(a), Abs(b))
        sgn == IF b < 0 THEN -1 ELSE 1
    IN  [num |-> (sgn * a) \div g, den |-> Abs(b) \div g]

\* `${a} ${operation} ${b} = ${result}`
CalculatorText(a, operation, b, result) ==
    [NoText EXCEPT !.kind = "calculator", !.a = a, !.operation = operation, !.b = b,
                   !.num = result.num, !.den = result.den]

Whole(x) == [num |-> x, den |-> 1]
handleCalculator(hasArgs, args) ==
    LET issues == CalculatorInputSchema(hasArgs, args)
        operation == args.operation.s
        a == args.a.n
        b == args.b.n
    IN  IF issues # {}
        THEN Throw("InvalidParams", [text |-> "Invalid input: ", issues |-> issues, name |-> ""])
        ELSE IF operation = "divide" /\ b = 0
        THEN Throw("InvalidParams", [text |-> "Cannot divide by zero", issues |-> {}, name |-> ""])
        ELSE LET result == CASE operation = "add" -> Whole(a + b)
                             [] operation = "subtract" -> Whole(a - b)
                             [] operation = "multiply" -> Whole(a * b)
                             [] operation = "divide" -> Quotient(a, b)
             IN  Return(<<TextItem(CalculatorText(a, operation, b, result))>>)

MOCK_WEATHER ==
    [key \in {"london", "new york", "tokyo", "paris", "sydney"} |->
        CASE key = "london" -> [tempC |-> 12, humidity |-> 80, condition |-> "Cloudy"]
          [] key = "new york" -> [tempC |-> 18, humidity |-> 60, condition |-> "Sunny"]
          [] key = "tokyo" -> [tempC |-> 22, humidity |-> 55, condition |-> "Partly Cloudy"]
          [] key = "paris" -> [tempC |-> 14, humidity |-> 70, condition |-> "Rainy"]
          [] key = "sydney" -> [tempC |-> 25, humidity |-> 50, condition |-> "Sunny"]]

\* Math.random(), in tenths: the draws the model takes from [0, 1)
RandomTenths == {0, 5, 9}

\* Math.round(x / 10) for x >= 0
RoundTenth(x) == (x + 5) \div 10

\* Math.floor(x / 10) for x >= 0
FloorTenth(x) == x \div 10

Conditions == <<"Sunny", "Cloudy", "Rainy", "Windy">>

\* MOCK_WEATHER[key] ?? { tempC: Math.round(15 + Math.random() * 15), ... }
WeatherData(key) ==
    IF key \in DOMAIN MOCK_WEATHER THEN {MOCK_WEATHER[key]}
    ELSE {[tempC |-> RoundTenth(150 + r1 * 15),
           humidity |-> RoundTenth(400 + r2 * 40),
           condition |-> Conditions[FloorTenth(r3 * 4) + 1]] :
             r1 \in RandomTenths, r2 \in RandomTenths, r3 \in RandomTenths}

\* parsed.data of WeatherInputSchema
WeatherParsed(args) ==
    [city |-> args.city.s,
     unit |-> IF args.unit.t = "undefined" THEN "celsius" ELSE args.unit.s]

\* JSON.stringify(weatherReport); the timestamp field is the wall clock and is left out
WeatherText(parsed, data) ==
    [NoText EXCEPT !.kind = "get_weather",
                   !.city = Capitalize(parsed.city),
                   !.temperature = IF parsed.unit = "fahrenheit"
                                   THEN RoundTenth(data.tempC * 18 + 320)
                                   ELSE data.tempC,
                   !.unitSymbol = IF parsed.unit = "fahrenheit" THEN "F" ELSE "C",
                   !.humidity = data.humidity,
                   !.condition = data.condition]

(***************************************************************************)
(* The tools/call handler.                                                 *)
(***************************************************************************)
AfterHandlerUncaught(outcome) ==
    IF ~outcome.ok /\ outcome.code = "InternalError" THEN "exited" ELSE "running"

\* Handlers are async functions run by the SDK: whatever one throws becomes
\* the rejection of its promise and is answered as an error response.  The
\* process keeps running.
AfterHandler(outcome) == "running"

StderrLine(tag, name) == [tag |-> tag, name |-> name]

ConsoleLog(line) == [stderr |-> <<>>, stdout |-> <<line>>]

\* process.stderr.write(line): what the statement adds to each output stream
StderrWrite(line) == [stderr |-> <<line>>, stdout |-> <<>>]

ToolCall(name, hasArgs, args) ==
    [method |-> "tools/call", name |-> name, hasArgs |-> hasArgs, args |-> args]

Respond(req, outcome) ==
    [req |-> req, ok |-> outcome.ok, code |-> outcome.code,
     message |-> outcome.message, content |-> outcome.content,
     tools |-> outcome.tools, contents |-> outcome.contents,
     messages |-> outcome.messages, resources |-> outcome.resources]

ToolSwitchIgnoreCase(name) ==
    CASE ToLowerCase(name) = "calculator" -> "handleCalculator"
      [] ToLowerCase(name) = "get_weather" -> "handleGetWeather"
      [] OTHER -> "default"

\* switch (name)
ToolSwitch(name) ==
    CASE name = "calculator" -> "handleCalculator"
      [] name = "get_weather" -> "handleGetWeather"
      [] OTHER -> "default"

UnknownTool(name) ==
    Throw("MethodNotFound", [text |-> "Unknown tool: ", issues |-> {}, name |-> name])

\* What a finished tools/call handler leaves of the declarations: the handlers
\* are handed request.params.arguments only and assign to nothing outside.
RegistryAfterUnregistering(tools, name, outcome) ==
    IF outcome.ok THEN tools ELSE SelectSeq(tools, LAMBDA t : t.name # name)

RegistryAfter(tools, name, outcome) == tools

\* The server reads one tools/call request and runs its handler up to the
\* first suspension: calculator and the failures answer at once, a valid
\* get_weather call waits for its timer.
ServerCallTool ==
    /\ srv = "running"
    /\ toServer # <<>>
    /\ Head(toServer).method = "tools/call"
    /\ LET req == Head(toServer)
           h == ToolSwitch(req.name)
           wIssues == WeatherInputSchema(req.hasArgs, req.args)
           outcome ==
              CASE h = "handleCalculator" -> handleCalculator(req.hasArgs, req.args)
                [] h = "handleGetWeather" ->
                      Throw("InvalidParams",
                            [text |-> "Invalid input: ", issues |-> wIssues, name |-> ""])
                [] OTHER -> UnknownTool(req.name)
           suspended == h = "handleGetWeather" /\ wIssues = {}
           validated == \/ suspended
                        \/ h = "handleCalculator"
                           /\ CalculatorInputSchema(req.hasArgs, req.args) = {}
       IN  /\ toServer' = Tail(toServer)
           /\ diag' = diag \o StderrWrite(StderrLine("tool:call", req.name)).stderr
           /\ stdoutWrites' =
                 stdoutWrites \o StderrWrite(StderrLine("tool:call", req.name)).stdout
           /\ handlerCalls' = IF h = "default" THEN handlerCalls
                              ELSE Append(handlerCalls, h)
           /\ logicRuns' = IF validated THEN Append(logicRuns, h) ELSE logicRuns
           /\ timers' = IF suspended
                        THEN Append(timers, [req |-> req, parsed |-> WeatherParsed(req.args)])
                        ELSE timers
           /\ toClient' = IF suspended THEN toClient
                          ELSE Append(toClient, Respond(req, outcome))
           /\ srv' = IF suspended THEN srv ELSE AfterHandler(outcome)
           /\ registry' = IF suspended THEN registry
                          ELSE RegistryAfter(registry, req.name, outcome)
    /\ UNCHANGED <<hostGot, failures, srvExit, clientVars>>

\* The setTimeout of a get_weather call fires: the report is built and returned.
WeatherTimer ==
    /\ srv = "running"
    /\ timers # <<>>
    /\ LET t == Head(timers)
       IN  \E data \in WeatherData(ToLowerCase(t.parsed.city)) :
              toClient' = Append(toClient,
                  Respond(t.req, Return(<<TextItem(WeatherText(t.parsed, data))>>)))
    /\ timers' = Tail(timers)
    /\ UNCHANGED <<toServer, diag, handlerCalls, logicRuns, hostGot, procVars, clientVars>>

(***************************************************************************)
(* Resources: the notes store and its reader (src/resources/notes.ts).     *)
(***************************************************************************)
notesStore ==
    <<[id |-> 1, title |-> "What is MCP?"],
      [id |-> 2, title |-> "MCP Transport Types"],
      [id |-> 3, title |-> "Why use Zod for validation?"]>>

\* URIs a host may ask for, with the string functions of the reader tabulated
UriStrings ==
    {"notes://all", "notes://1", "notes://2", "notes://3", "notes://01", "notes://9",
     "notes://abc", "notes://", "Notes://1", "file:///etc/passwd"}

\* uri.startsWith("notes://")
StartsWithNotes(uri) == uri \notin {"Notes://1", "file:///etc/passwd"}

\* uri.match(/^notes:\/\/(\d+)$/) followed by parseInt(match[1], 10);
\* -1 stands for "no match"
NoteIdOf(uri) ==
    CASE uri = "notes://1" -> 1
      [] uri = "notes://01" -> 1
      [] uri = "notes://2" -> 2
      [] uri = "notes://3" -> 3
      [] uri = "notes://9" -> 9
      [] OTHER -> -1

\* `${id}`
IdString(id) ==
    CASE id = 1 -> "1"
      [] id = 2 -> "2"
      [] id = 3 -> "3"
      [] id = 9 -> "9"
      [] OTHER -> "?"

ResourceContent(uri, kind, id, title) ==
    [uri |-> uri, mimeType |-> "text/plain",
     text |-> [kind |-> kind, id |-> id, title |-> title]]

ReturnContents(contents) == [Return(<<>>) EXCEPT !.contents = contents]

\* A plain Error thrown by a handler has no numeric code: the SDK answers it
\* with a JSON-RPC error of code InternalError carrying error.message.
ThrowError(message) == Throw("InternalError", message)

readNoteResource(uri) ==
    IF uri = "notes://all"
    THEN ReturnContents(<<ResourceContent(uri, "all", Len(notesStore), "All Notes")>>)
    ELSE IF NoteIdOf(uri) # -1
    THEN LET id == NoteIdOf(uri)
             found == {i \in 1..Len(notesStore) : notesStore[i].id = id}
         IN  IF found = {}
             THEN ThrowError([text |-> "Note with ID not found", issues |-> {},
                              name |-> IdString(id)])
             ELSE LET note == notesStore[CHOOSE i \in found : \A j \in found : i <= j]
                  IN  ReturnContents(<<ResourceContent(uri, "note", note.id, note.title)>>)
    ELSE ThrowError([text |-> "Unknown resource URI: ", issues |-> {}, name |-> uri])

\* `notes://${note.id}`
NoteUri(id) ==
    CASE id = 1 -> "notes://1"
      [] id = 2 -> "notes://2"
      [] id = 3 -> "notes://3"
      [] id = 9 -> "notes://9"

Resource(uri, name) == [uri |-> uri, name |-> name, mimeType |-> "text/plain"]

getNotesResourceListStale ==
    [i \in DOMAIN notesStore |-> Resource(NoteUri(notesStore[i].id), notesStore[i].title)]
    \o <<Resource(NoteUri(9), "Draft")>>

\* notesStore.map(note => ({uri, name, description, mimeType}))
getNotesResourceList ==
    [i \in DOMAIN notesStore |-> Resource(NoteUri(notesStore[i].id), notesStore[i].title)]

\* the resources/list handler: the static entry, then one entry per note
ListResources == <<Resource("notes://all", "All Notes")>> \o getNotesResourceList

ReturnResources(resources) == [Return(<<>>) EXCEPT !.resources = resources]

ResourcesList ==
    [method |-> "resources/list", name |-> "", hasArgs |-> FALSE, args |-> EmptyArgs]

ResourceRead(uri) ==
    [method |-> "resources/read", name |-> uri, hasArgs |-> FALSE, args |-> EmptyArgs]

\* the body of the resources/read handler after its stderr line
ReadResource(uri) ==
    IF StartsWithNotes(uri)
    THEN readNoteResource(uri)
    ELSE Throw("InvalidRequest",
               [text |-> "Unknown resource URI: ", issues |-> {}, name |-> uri])

(***************************************************************************)
(* Prompts: the two templates and their argument schemas.                  *)
(***************************************************************************)
FocusEnum == {"security", "performance", "readability", "all"}
LevelEnum == {"beginner", "intermediate", "expert"}

\* `arguments: args = {}`: the handlers always parse an object
CodeReviewArgsSchema(args) ==
    ZStringMin1("language", args.language)
    \cup ZEnumDefault(FocusEnum, "focus", args.focus)

ExplainConceptArgsSchema(args) ==
    ZStringMin1("concept", args.concept)
    \cup ZEnumDefault(LevelEnum, "level", args.level)

WithoutDefault(v, d) == IF v.t = "undefined" THEN "" ELSE v.s

\* .default(d)
WithDefault(v, d) == IF v.t = "undefined" THEN d ELSE v.s

UserMessage(template, subject, mode) ==
    [role |-> "user", type |-> "text",
     text |-> [template |-> template, subject |-> subject, mode |-> mode]]

ReturnMessages(messages) == [Return(<<>>) EXCEPT !.messages = messages]

InvalidPromptArguments(issues) ==
    Throw("InvalidParams",
          [text |-> "Invalid prompt arguments: ", issues |-> issues, name |-> ""])

handleCodeReviewPrompt(args) ==
    IF CodeReviewArgsSchema(args) # {}
    THEN InvalidPromptArguments(CodeReviewArgsSchema(args))
    ELSE ReturnMessages(<<UserMessage("code-review", args.language.s,
                                      WithDefault(args.focus, "all"))>>)

handleExplainConceptPrompt(args) ==
    IF ExplainConceptArgsSchema(args) # {}
    THEN InvalidPromptArguments(ExplainConceptArgsSchema(args))
    ELSE ReturnMessages(<<UserMessage("explain-concept", args.concept.s,
                                      WithDefault(args.level, "beginner"))>>)

PromptGet(name, hasArgs, args) ==
    [method |-> "prompts/get", name |-> name, hasArgs |-> hasArgs, args |-> args]

\* switch (name) of the prompts/get handler
GetPrompt(name, args) ==
    CASE name = "code-review" -> handleCodeReviewPrompt(args)
      [] name = "explain-concept" -> handleExplainConceptPrompt(args)
      [] OTHER -> Throw("MethodNotFound",
                        [text |-> "Unknown prompt: ", issues |-> {}, name |-> name])

(***************************************************************************)
(* The other request handlers of the server.                               *)
(***************************************************************************)
(***************************************************************************)
(* main of the server: connect the stdio transport, then announce on       *)
(* stderr; a rejection is reported on stderr and ends the process.         *)
(***************************************************************************)
StartupLines ==
    <<StderrLine("startup", "My MCP Server is running via stdio"),
      StderrLine("startup", "Tools"),
      StderrLine("startup", "Resources"),
      StderrLine("startup", "Prompts")>>

RECURSIVE WriteAll(_)
\* consecutive process.stderr.write statements
WriteAll(lines) ==
    IF lines = <<>> THEN [stderr |-> <<>>, stdout |-> <<>>]
    ELSE LET first == StderrWrite(Head(lines))
             rest == WriteAll(Tail(lines))
         IN  [stderr |-> first.stderr \o rest.stderr, stdout |-> first.stdout \o rest.stdout]

\* await server.connect(transport) resolves
ServerStart ==
    /\ srv = "starting"
    /\ srv' = "running"
    /\ diag' = diag \o WriteAll(StartupLines).stderr
    /\ stdoutWrites' = stdoutWrites \o WriteAll(StartupLines).stdout
    /\ UNCHANGED <<toServer, toClient, timers, handlerCalls, logicRuns, hostGot, failures,
                   srvExit, registry, clientVars>>

\* await server.connect(transport) rejects: main().catch
ServerStartFail ==
    /\ srv = "starting"
    /\ srv' = "exited"
    /\ srvExit' = 1
    /\ diag' = diag \o StderrWrite(StderrLine("fatal", "Fatal error")).stderr
    /\ stdoutWrites' = stdoutWrites \o StderrWrite(StderrLine("fatal", "Fatal error")).stdout
    /\ UNCHANGED <<toServer, toClient, timers, handlerCalls, logicRuns, hostGot, failures,
                   registry, clientVars>>

ToolsList == [method |-> "tools/list", name |-> "", hasArgs |-> FALSE, args |-> EmptyArgs]

ReturnTools(tools) == [Return(<<>>) EXCEPT !.tools = tools]

\* tools/list: no stderr line, the two declarations are returned
ServerListTools ==
    /\ srv = "running"
    /\ toServer # <<>>
    /\ Head(toServer).method = "tools/list"
    /\ LET req == Head(toServer)
           outcome == ReturnTools(registry)
       IN  /\ toServer' = Tail(toServer)
           /\ toClient' = Append(toClient, Respond(req, outcome))
           /\ srv' = AfterHandler(outcome)
    /\ UNCHANGED <<timers, diag, handlerCalls, logicRuns, hostGot, failures, srvExit,
                   stdoutWrites, registry, clientVars>>

\* resources/list: no stderr line
ServerListResources ==
    /\ srv = "running"
    /\ toServer # <<>>
    /\ Head(toServer).method = "resources/list"
    /\ LET req == Head(toServer)
           outcome == ReturnResources(ListResources)
       IN  /\ toServer' = Tail(toServer)
           /\ toClient' = Append(toClient, Respond(req, outcome))
           /\ srv' = AfterHandler(outcome)
    /\ UNCHANGED <<timers, diag, handlerCalls, logicRuns, hostGot, failures, srvExit,
                   stdoutWrites, registry, clientVars>>

ServerReadResource ==
    /\ srv = "running"
    /\ toServer # <<>>
    /\ Head(toServer).method = "resources/read"
    /\ LET req == Head(toServer)
           outcome == ReadResource(req.name)
       IN  /\ toServer' = Tail(toServer)
           /\ diag' = diag \o StderrWrite(StderrLine("resource:read", req.name)).stderr
           /\ stdoutWrites' =
                 stdoutWrites \o StderrWrite(StderrLine("resource:read", req.name)).stdout
           /\ toClient' = Append(toClient, Respond(req, outcome))
           /\ srv' = AfterHandler(outcome)
    /\ UNCHANGED <<timers, handlerCalls, logicRuns, hostGot, failures, srvExit, registry, clientVars>>

ServerGetPrompt ==
    /\ srv = "running"
    /\ toServer # <<>>
    /\ Head(toServer).method = "prompts/get"
    /\ LET req == Head(toServer)
           outcome == GetPrompt(req.name, req.args)
       IN  /\ toServer' = Tail(toServer)
           /\ diag' = diag \o StderrWrite(StderrLine("prompt:get", req.name)).stderr
           /\ stdoutWrites' =
                 stdoutWrites \o StderrWrite(StderrLine("prompt:get", req.name)).stdout
           /\ toClient' = Append(toClient, Respond(req, outcome))
           /\ srv' = AfterHandler(outcome)
    /\ UNCHANGED <<timers, handlerCalls, logicRuns, hostGot, failures, srvExit, registry, clientVars>>

(***************************************************************************)
(* A host of the server (Claude Desktop, the Inspector, the client below)  *)
(* that sends one request at a time and reads the answer.                  *)
(***************************************************************************)
NoRequest == [method |-> "", name |-> "", hasArgs |-> FALSE, args |-> EmptyArgs]
NoResponse == Respond(NoRequest, Return(<<>>))

OperationValues ==
    {Undefined, JStr("add"), JStr("subtract"), JStr("multiply"), JStr("divide"),
     JStr("power"), JNum(1)}
AValues == {Undefined, JNum(1), JNum(25), JNum(-3), JStr("x"), JNull}
BValues == {Undefined, JNum(0), JNum(2), JNum(4), JStr("2")}
CityValues == {Undefined, JNum(7), JNull} \cup {JStr(c) : c \in CityStrings}
UnitValues == {Undefined, JStr("celsius"), JStr("fahrenheit"), JStr("kelvin"),
               JStr("Celsius"), JNum(1), JNull}

ArgsUniverse ==
    {Args(op, a, b, Undefined, Undefined) :
        op \in OperationValues, a \in AValues, b \in BValues}
    \cup {Args(Undefined, Undefined, Undefined, city, unit) :
        city \in CityValues, unit \in UnitValues}
    \cup {Args(JStr("add"), JNum(1), JNum(2), JStr("Tokyo"), unit) : unit \in UnitValues}
    \cup {Args(JStr("multiply"), JNum(12), JNum(7), Undefined, Undefined)}

HostToolNames ==
    {"calculator", "get_weather", "Calculator", "GET_WEATHER", "get_weather ", "calc"}

PromptArgsUniverse ==
    {PromptArgs(l, f, Undefined, Undefined) :
        l \in {Undefined, JStr("Go"), JStr(""), JNum(1)},
        f \in {Undefined, JStr("security"), JStr("all"), JStr("speed")}}
    \cup {PromptArgs(Undefined, Undefined, c, v) :
        c \in {Undefined, JStr("MCP Resources"), JStr(""), JNull},
        v \in {Undefined, JStr("expert"), JStr("Expert")}}
HostPromptNames == {"code-review", "explain-concept", "Code-Review", "summarize"}

HostRequests ==
    {ToolCall(name, TRUE, args) : name \in HostToolNames, args \in ArgsUniverse}
    \cup {ToolCall(name, FALSE, EmptyArgs) : name \in HostToolNames}
    \cup {ResourceRead(uri) : uri \in UriStrings}
    \cup {PromptGet(name, TRUE, args) : name \in HostPromptNames, args \in PromptArgsUniverse}
    \cup {PromptGet(name, FALSE, EmptyArgs) : name \in HostPromptNames}
    \cup {ToolsList, ResourcesList}

HostRequest ==
    /\ srv = "running"
    /\ toServer = <<>> /\ timers = <<>> /\ toClient = <<>>
    /\ \E req \in HostRequests : toServer' = <<req>>
    /\ diag' = <<>>
    /\ handlerCalls' = <<>>
    /\ logicRuns' = <<>>
    /\ hostGot' = NoResponse
    /\ UNCHANGED <<toClient, timers, procVars, clientVars>>

HostReceive ==
    /\ toClient # <<>>
    /\ hostGot' = Head(toClient)
    /\ toClient' = Tail(toClient)
    /\ failures' = IF ~Head(toClient).ok /\ failures < MaxFailures
                   THEN failures + 1 ELSE failures
    /\ UNCHANGED <<toServer, timers, diag, handlerCalls, logicRuns, srv, srvExit,
                   stdoutWrites, registry, clientVars>>

ServerInit ==
    /\ toServer = <<>>
    /\ toClient = <<>>
    /\ timers = <<>>
    /\ diag = <<>>
    /\ handlerCalls = <<>>
    /\ logicRuns = <<>>
    /\ hostGot = NoResponse
    /\ failures = 0
    /\ srvExit = 0
    /\ stdoutWrites = <<>>
    /\ registry = ListTools

NoMsg == [kind |-> "", text |-> "", parts |-> <<>>]

ClientIdle(at) ==
    /\ pc = at
    /\ pendingModel = NoMsg
    /\ functionCalls = <<>>
    /\ callIdx = 0
    /\ toolResults = <<>>
    /\ round = 0
    /\ sent = <<>>
    /\ received = <<>>
    /\ invoked = <<>>
    /\ console = <<>>

\* no client process: the server is driven by another host
NoClient ==
    /\ apiKey = Undefined
    /\ connected = FALSE
    /\ exitCode = 0
    /\ spawned = FALSE
    /\ mcpTools = <<>>
    /\ translated = <<>>

\* no chat session, nobody at the terminal
NoSession ==
    history = <<>> /\ repertoire = {} /\ turnsLeft = 0 /\ asking = 0 /\ userInput = <<>>

InitServer == ServerInit /\ srv = "starting" /\ ClientIdle("absent") /\ NoClient /\ NoSession

\* The translator on its own, over the declarations a server may list.
InitTranslate ==
    /\ ServerInit /\ srv = "off"
    /\ ClientIdle("translate")
    /\ apiKey = JStr("AIza-key") /\ exitCode = 0 /\ spawned = FALSE /\ connected = FALSE
    /\ mcpTools \in {<<tool>> : tool \in ToolDeclarations} \cup {ListTools}
    /\ translated = <<>>
    /\ NoSession

NextTranslate == Translate

SpecTranslate == InitTranslate /\ [][NextTranslate]_vars

NextServer ==
    \/ ServerStart
    \/ ServerStartFail
    \/ HostRequest
    \/ ServerCallTool
    \/ WeatherTimer
    \/ ServerListTools
    \/ ServerListResources
    \/ ServerReadResource
    \/ ServerGetPrompt
    \/ HostReceive

SpecServer == InitServer /\ [][NextServer]_vars

(***************************************************************************)
(* The client: askQuestion and the callback of rl.question.                *)
(***************************************************************************)
\* a function call of a model response: call.name, call.args
FunctionCall(name, args) == [name |-> name, args |-> args]
NoCall == FunctionCall("", EmptyArgs)

CallMultiply ==
    FunctionCall("calculator", Args(JStr("multiply"), JNum(25), JNum(4), Undefined, Undefined))
CallDivideByZero ==
    FunctionCall("calculator", Args(JStr("divide"), JNum(1), JNum(0), Undefined, Undefined))
CallBadArgs ==
    FunctionCall("calculator", Args(JStr("add"), JStr("x"), JNum(2), Undefined, Undefined))
CallUnknown ==
    FunctionCall("Calculator", Args(JStr("multiply"), JNum(25), JNum(4), Undefined, Undefined))
CallWeather ==
    FunctionCall("get_weather", Args(Undefined, Undefined, Undefined, JStr("Tokyo"), Undefined))

\* the function calls the model may ask for
ModelCalls == {CallMultiply, CallDivideByZero, CallBadArgs, CallUnknown, CallWeather}

RECURSIVE SeqsUpTo(_, _)
SeqsUpTo(S, n) ==
    IF n = 0 THEN {<<>>}
    ELSE LET shorter == SeqsUpTo(S, n - 1)
         IN  shorter \cup {Append(q, x) : q \in shorter, x \in S}

\* what chat.sendMessage may resolve to: plain text, or function calls with
\* some accompanying text
ModelResponses ==
    {[calls |-> <<>>, text |-> "It is 100."]}
    \cup {[calls |-> q, text |-> "Let me check."] : q \in SeqsUpTo(ModelCalls, MaxCalls) \ {<<>>}}

\* the lines the user may type
UserInputs == {"exit", " Exit ", "", "  ", "what is 25x4?", " hi "}

\* userInput.trim()
Trim(s) ==
    CASE s = " Exit " -> "Exit"
      [] s = "  " -> ""
      [] s = " hi " -> "hi"
      [] OTHER -> s

\* the lower-case form of the trimmed line
TrimLower(s) ==
    CASE Trim(s) = "Exit" -> "exit"
      [] OTHER -> Trim(s)

UserMsgTrimmed(text) == [kind |-> "user", text |-> Trim(text), parts |-> <<>>]

\* chat.sendMessage(userInput): the line as it was entered
UserMsg(text) == [kind |-> "user", text |-> text, parts |-> <<>>]

BatchOfLast(results) ==
    [kind |-> "batch", text |-> "", parts |-> <<results[Len(results)]>>]

Batch(results) == [kind |-> "batch", text |-> "", parts |-> results]

NoErr == [code |-> "", message |-> NoMessage]
\* err.message of what callTool or sendMessage rejected with
ErrOf(r) == [code |-> r.code, message |-> r.message]
ConnectionClosedErr == [code |-> "ConnectionClosed", message |-> NoMessage]
NotConnectedErr == [code |-> "NotConnected", message |-> NoMessage]
ModelErr == [code |-> "ModelError", message |-> NoMessage]

Line(stream, kind) ==
    [stream |-> stream, kind |-> kind, call |-> NoCall, result |-> <<>>,
     text |-> "", err |-> NoErr]
CallingLine(call) == [Line("stdout", "calling") EXCEPT !.call = call]
ResultLine(resultText) == [Line("stdout", "result") EXCEPT !.result = resultText]
AnswerLine(text) == [Line("stdout", "answer") EXCEPT !.text = text]
GoodbyeLine == Line("stdout", "goodbye")
ErrorLine(err) == [Line("stderr", "error") EXCEPT !.err = err]

\* content.filter(c => c.type === "text").map(c => c.text).join("\n"),
\* kept as the list of the joined texts
ResultText(content) ==
    LET texts == SelectSeq(content, LAMBDA c : c.type = "text")
    IN  [i \in DOMAIN texts |-> texts[i].text]

FunctionResponse(call, resultText) == [name |-> call.name, result |-> resultText]

PushResultFront(results, call, resultText) ==
    <<FunctionResponse(call, resultText)>> \o results

\* toolResults.push({ functionResponse: { name: call.name, response: { result } } })
PushResult(results, call, resultText) ==
    Append(results, FunctionResponse(call, resultText))

LoopDoneAfterFirst(idx, calls) == idx >= 1

\* the for-of loop over functionCalls has no element left after position idx
LoopDone(idx, calls) == idx >= Len(calls)

RequestsForAll(calls, idx) ==
    [i \in 1..(Len(calls) - idx + 1) |->
        ToolCall(calls[idx + i - 1].name, TRUE, calls[idx + i - 1].args)]

\* the requests one pass of the loop body writes to the server: one callTool
RequestsFor(calls, idx) == <<ToolCall(calls[idx].name, TRUE, calls[idx].args)>>

TextLinesAlways(resp) == <<AnswerLine(resp.text)>>

\* the lines printed for the text of a response: only a response without
\* function calls has its text printed
TextLines(resp) ==
    IF Len(resp.calls) = 0 THEN <<AnswerLine(resp.text)>> ELSE <<>>

Invocation(call, ok, response) == [call |-> call, ok |-> ok, response |-> response]

\* askQuestion(): one more rl.question whose callback waits for a line
AskQuestionTwice(waiting) == waiting + 2

AskQuestion(waiting) == waiting + 1

\* One pass of the loop body up to its await: print the call and issue
\* callTool.  With the transport closed the SDK rejects at once, which lands
\* in the catch block and re-prompts.
StartCall(calls, idx, lines, invokedSoFar) ==
    IF connected
    THEN /\ toServer' = toServer \o RequestsFor(calls, idx)
         /\ pc' = "tool"
         /\ console' = Append(lines, CallingLine(calls[idx]))
         /\ invoked' = invokedSoFar
         /\ diag' = <<>>
         /\ handlerCalls' = <<>>
         /\ logicRuns' = <<>>
         /\ UNCHANGED <<procVars, asking, userInput>>
    ELSE /\ toServer' = toServer
         /\ pc' = "prompt"
         /\ asking' = AskQuestion(asking)
         /\ userInput' = <<>>
         /\ console' = lines \o <<CallingLine(calls[idx]), ErrorLine(NotConnectedErr)>>
         /\ invoked' = Append(invokedSoFar, Invocation(calls[idx], FALSE, NoResponse))
         /\ UNCHANGED <<procVars, diag, handlerCalls, logicRuns>>

(***************************************************************************)
(* Startup of the client: the key check of the module body, then main up   *)
(* to the first askQuestion().                                             *)
(***************************************************************************)
ApiKeys == {Undefined, JStr(""), JStr("your_gemini_api_key_here"), JStr("AIza-key")}

KeyMissingUnsetOnly(key) == key.t = "undefined"

\* !GEMINI_API_KEY || GEMINI_API_KEY === "your_gemini_api_key_here"
KeyMissing(key) ==
    \/ key.t = "undefined"
    \/ key.s = ""
    \/ key.s = "your_gemini_api_key_here"

FatalLine(err) == [Line("stderr", "fatal") EXCEPT !.err = err]

\* The module body runs: a missing key ends the process; otherwise main()
\* runs up to `await mcpClient.connect(transport)`, which spawns the server
\* (the spawn itself may fail).
ClientStart ==
    /\ pc = "start"
    /\ IF KeyMissing(apiKey)
       THEN /\ console' = Append(console, Line("stderr", "nokey"))
            /\ exitCode' = 1
            /\ pc' = "exited"
            /\ UNCHANGED <<spawned, srv>>
       ELSE \E started \in BOOLEAN :
               /\ console' = Append(console, Line("stdout", "connecting"))
               /\ spawned' = started
               /\ srv' = IF started THEN "starting" ELSE "off"
               /\ pc' = "connecting"
               /\ UNCHANGED exitCode
    /\ UNCHANGED <<toServer, toClient, timers, diag, handlerCalls, logicRuns, hostGot,
                   failures, srvExit, stdoutWrites, registry, sessionVars, apiKey,
                   mcpTools, translated,
                   connected, pendingModel, functionCalls, callIdx, toolResults, round,
                   sent, received, invoked>>

\* main().catch: console.error("Fatal:", err); process.exit(1)
Fatal(err) ==
    /\ console' = Append(console, FatalLine(err))
    /\ exitCode' = 1
    /\ pc' = "exited"

\* connect resolves once the server answers on its transport; main goes on
\* to `await mcpClient.listTools()`
ClientConnected ==
    /\ pc = "connecting"
    /\ srv = "running"
    /\ connected' = TRUE
    /\ console' = Append(console, Line("stdout", "connected"))
    /\ toServer' = Append(toServer, ToolsList)
    /\ pc' = "listing"
    /\ UNCHANGED <<toClient, timers, diag, handlerCalls, logicRuns, hostGot, procVars,
                   startVars, sessionVars, pendingModel, functionCalls, callIdx, toolResults, round,
                   sent, received, invoked>>

\* connect rejects: the child could not be started or has ended
ClientConnectFail ==
    /\ pc = "connecting"
    /\ srv \in {"off", "exited"}
    /\ Fatal(ConnectionClosedErr)
    /\ UNCHANGED <<serverVars, sessionVars, apiKey, spawned, mcpTools, translated, connected,
                   pendingModel, functionCalls, callIdx, toolResults, round, sent,
                   received, invoked>>

ListFailContinue ==
    /\ pc = "listing"
    /\ connected' = FALSE
    /\ toServer' = <<>> /\ toClient' = <<>>
    /\ console' = Append(console, Line("stdout", "banner"))
    /\ pc' = "prompt"
    /\ UNCHANGED <<timers, diag, handlerCalls, logicRuns, hostGot, procVars, startVars, sessionVars,
                   pendingModel, functionCalls, callIdx, toolResults, round, sent,
                   received, invoked>>

\* listTools rejects: the transport closed under the request
ListFail ==
    /\ pc = "listing"
    /\ connected' = FALSE
    /\ toServer' = <<>> /\ toClient' = <<>>
    /\ Fatal(ConnectionClosedErr)
    /\ UNCHANGED <<timers, diag, handlerCalls, logicRuns, hostGot, procVars, sessionVars, apiKey,
                   spawned, mcpTools, translated, pendingModel, functionCalls, callIdx,
                   toolResults, round, sent, received, invoked>>

\* listTools resolves: the declarations are translated, the model and the
\* chat are set up, the banner is printed and askQuestion() issues the prompt
ListDone ==
    /\ pc = "listing"
    /\ toClient # <<>>
    /\ Head(toClient).ok
    /\ LET listed == Head(toClient).tools
       IN  /\ translated' = <<GeminiTools(listed)>>
           /\ mcpTools' = InputAfter(listed)
    /\ toClient' = Tail(toClient)
    /\ console' = console \o <<Line("stdout", "tools"), Line("stdout", "banner")>>
    /\ pc' = "prompt"
    /\ asking' = AskQuestion(asking)
    /\ userInput' = <<>>
    /\ UNCHANGED <<toServer, timers, diag, handlerCalls, logicRuns, hostGot, procVars,
                   history, repertoire, turnsLeft, apiKey, exitCode, spawned, connected, pendingModel, functionCalls,
                   callIdx, toolResults, round, sent, received, invoked>>

\* The user enters a line at the prompt.
UserInput ==
    /\ UNCHANGED <<startVars, history, repertoire>>
    /\ pc = "prompt"
    /\ asking > 0
    /\ \E line \in UserInputs :
          IF TrimLower(line) = "exit"
          THEN /\ pc' = "closing"
               /\ asking' = asking - 1
               /\ userInput' = <<line>>
               /\ UNCHANGED turnsLeft
               /\ console' = <<GoodbyeLine>>
               /\ pendingModel' = NoMsg
               /\ sent' = <<>>
               /\ functionCalls' = <<>> /\ callIdx' = 0 /\ toolResults' = <<>>
               /\ round' = 0 /\ received' = <<>> /\ invoked' = <<>>
               /\ UNCHANGED <<serverVars, connected>>
          ELSE IF Trim(line) = ""
          THEN /\ asking' = AskQuestion(asking - 1)
               /\ userInput' = <<>>
               /\ UNCHANGED <<serverVars, turnsLeft, pc, connected, pendingModel,
                              functionCalls, callIdx, toolResults, round, sent, received,
                              invoked, console>>
          ELSE /\ turnsLeft > 0
               /\ turnsLeft' = turnsLeft - 1
               /\ asking' = asking - 1
               /\ userInput' = <<line>>
               /\ pc' = "model"
               /\ pendingModel' = UserMsg(line)
               /\ sent' = <<UserMsg(line)>>
               /\ console' = <<>>
               /\ functionCalls' = <<>> /\ callIdx' = 0 /\ toolResults' = <<>>
               /\ round' = 0 /\ received' = <<>> /\ invoked' = <<>>
               /\ UNCHANGED <<serverVars, connected>>

\* await mcpClient.close() returns; rl.close()
CloseDone ==
    /\ UNCHANGED <<startVars, history, repertoire, turnsLeft, asking>>
    /\ pc = "closing"
    /\ pc' = "closed"
    /\ userInput' = <<>>
    /\ connected' = FALSE
    /\ toServer' = <<>> /\ timers' = <<>> /\ toClient' = <<>>
    /\ UNCHANGED <<procVars, diag, handlerCalls, logicRuns, hostGot, pendingModel, functionCalls,
                   callIdx, toolResults, round, sent, received, invoked, console>>

\* One content of the chat history: who it is from, and whether it carries
\* function calls (model) or function responses (batch).
Content(msg) == [kind |-> msg.kind, calls |-> msg.parts # <<>>]
ModelContent(resp) == [kind |-> "model", calls |-> resp.calls # <<>>]

\* chat.sendMessage on the one session of model.startChat(): when the request
\* resolves, the session appends the message sent and the model's answer to
\* its history; a request that rejects appends nothing.
SendResolvedFreshSession(contents, msg, resp) ==
    IF msg.kind = "user" THEN <<Content(msg), ModelContent(resp)>>
    ELSE contents \o <<Content(msg), ModelContent(resp)>>

SendResolved(contents, msg, resp) == contents \o <<Content(msg), ModelContent(resp)>>

\* The condition of the agentic loop, tested with the rounds done so far
\* before each response is looked at: while (true).
WhileOneRound(rounds) == rounds < 1

While(rounds) == TRUE

\* chat.sendMessage resolves: the loop body runs up to the next await.
ModelRespond ==
    /\ UNCHANGED <<startVars, repertoire, turnsLeft>>
    /\ pc = "model"
    /\ \E resp \in ModelResponses :
          /\ Range(resp.calls) \subseteq repertoire
          /\ Len(resp.calls) > 0 => round < MaxRounds
          /\ history' = SendResolved(history, pendingModel, resp)
          /\ received' = Append(received, resp)
          /\ pendingModel' = NoMsg
          /\ functionCalls' = resp.calls
          /\ IF ~While(round)
             THEN /\ pc' = "prompt"
                  /\ asking' = AskQuestion(asking)
                  /\ userInput' = <<>>
                  /\ toolResults' = <<>>
                  /\ callIdx' = 0
                  /\ invoked' = <<>>
                  /\ UNCHANGED <<toServer, procVars, diag, handlerCalls, logicRuns, round,
                                 console>>
             ELSE IF Len(resp.calls) = 0
             THEN /\ console' = console \o TextLines(resp)
                  /\ pc' = "prompt"
                  /\ asking' = AskQuestion(asking)
                  /\ userInput' = <<>>
                  /\ toolResults' = <<>>
                  /\ callIdx' = 0
                  /\ invoked' = <<>>
                  /\ UNCHANGED <<toServer, procVars, diag, handlerCalls, logicRuns, round>>
             ELSE /\ toolResults' = <<>>
                  /\ callIdx' = 1
                  /\ round' = round + 1
                  /\ StartCall(resp.calls, 1, console \o TextLines(resp), <<>>)
    /\ UNCHANGED <<toClient, timers, hostGot, connected, sent>>

ModelFailRetry ==
    /\ UNCHANGED <<startVars, sessionVars>>
    /\ pc = "model"
    /\ console' = Append(console, ErrorLine(ModelErr))
    /\ sent' = IF Len(sent) <= MaxRounds + 1 THEN Append(sent, pendingModel) ELSE sent
    /\ UNCHANGED <<serverVars, pc, connected, pendingModel, functionCalls, callIdx,
                   toolResults, round, received, invoked>>

\* chat.sendMessage rejects, or the response cannot be read (functionCalls()
\* throws on a blocked candidate): the catch block prints and re-prompts.
ModelFail ==
    /\ UNCHANGED <<startVars, history, repertoire, turnsLeft>>
    /\ asking' = AskQuestion(asking)
    /\ userInput' = <<>>
    /\ pc = "model"
    /\ console' = Append(console, ErrorLine(ModelErr))
    /\ pendingModel' = NoMsg
    /\ pc' = "prompt"
    /\ UNCHANGED <<serverVars, connected, functionCalls, callIdx, toolResults, round,
                   sent, received, invoked>>

\* The rest of the loop body once callTool has produced resultText, then
\* either the next pass or the batched sendMessage.
Collect(r, ok, resultText) ==
    LET call == functionCalls[callIdx]
        results == PushResult(toolResults, call, resultText)
        lines == Append(console, ResultLine(resultText))
        inv == Append(invoked, Invocation(call, ok, r))
    IN  /\ toClient' = Tail(toClient)
        /\ toolResults' = results
        /\ UNCHANGED <<startVars, history, repertoire, turnsLeft>>
        /\ IF LoopDone(callIdx, functionCalls)
           THEN /\ pc' = "model"
                /\ pendingModel' = Batch(results)
                /\ sent' = Append(sent, Batch(results))
                /\ console' = lines
                /\ invoked' = inv
                /\ UNCHANGED <<toServer, procVars, diag, handlerCalls, logicRuns, callIdx,
                               asking, userInput>>
           ELSE /\ callIdx' = callIdx + 1
                /\ StartCall(functionCalls, callIdx + 1, lines, inv)
                /\ UNCHANGED <<pendingModel, sent>>
        /\ UNCHANGED <<timers, hostGot, connected, functionCalls, round, received>>

\* callTool resolves with the result of the tool.
ToolResolve ==
    /\ pc = "tool"
    /\ toClient # <<>>
    /\ Head(toClient).ok
    /\ Collect(Head(toClient), TRUE, ResultText(Head(toClient).content))

ToolRejectCollect ==
    /\ pc = "tool"
    /\ toClient # <<>>
    /\ ~Head(toClient).ok
    /\ Collect(Head(toClient), FALSE, <<>>)

\* callTool rejects with the McpError of a JSON-RPC error response: the
\* exception leaves both loops, the catch block prints it and re-prompts.
ToolReject ==
    /\ UNCHANGED <<startVars, history, repertoire, turnsLeft>>
    /\ asking' = AskQuestion(asking)
    /\ userInput' = <<>>
    /\ pc = "tool"
    /\ toClient # <<>>
    /\ ~Head(toClient).ok
    /\ toClient' = Tail(toClient)
    /\ console' = Append(console, ErrorLine(ErrOf(Head(toClient))))
    /\ invoked' = Append(invoked, Invocation(functionCalls[callIdx], FALSE, Head(toClient)))
    /\ pc' = "prompt"
    /\ UNCHANGED <<toServer, timers, procVars, diag, handlerCalls, logicRuns, hostGot, connected,
                   pendingModel, functionCalls, callIdx, toolResults, round, sent, received>>

\* The stdio transport closes under the client (the server process ends): a
\* pending callTool rejects with ConnectionClosed.
TransportClose ==
    /\ UNCHANGED <<startVars, history, repertoire, turnsLeft>>
    /\ connected
    /\ pc \in {"prompt", "model", "tool"}
    /\ connected' = FALSE
    /\ toServer' = <<>> /\ timers' = <<>> /\ toClient' = <<>>
    /\ IF pc = "tool"
       THEN /\ pc' = "prompt"
            /\ asking' = AskQuestion(asking)
            /\ userInput' = <<>>
            /\ console' = Append(console, ErrorLine(ConnectionClosedErr))
            /\ invoked' = Append(invoked, Invocation(functionCalls[callIdx], FALSE, NoResponse))
       ELSE UNCHANGED <<pc, console, invoked, asking, userInput>>
    /\ UNCHANGED <<procVars, diag, handlerCalls, logicRuns, hostGot, pendingModel, functionCalls,
                   callIdx, toolResults, round, sent, received>>

\* the client process starts; the server is its child and does not run yet
ClientInit ==
    /\ ServerInit /\ srv = "off"
    /\ ClientIdle("start")
    /\ apiKey \in ApiKeys
    /\ exitCode = 0
    /\ spawned = FALSE
    /\ connected = FALSE
    /\ mcpTools = <<>>
    /\ translated = <<>>
    /\ history = <<>>
    /\ asking = 0
    /\ userInput = <<>>

\* Spec: one question, to a model that may request any of the calls.
Init == ClientInit /\ repertoire = ModelCalls /\ turnsLeft = 1

\* SpecChat: several questions in one session, to a model that requests the
\* calculator and an unregistered tool only.
InitChat == ClientInit /\ repertoire = {CallMultiply, CallUnknown} /\ turnsLeft = MaxTurns

Next ==
    \/ ClientStart
    \/ ClientConnected
    \/ ClientConnectFail
    \/ ListDone
    \/ ListFail
    \/ ServerStart
    \/ ServerStartFail
    \/ ServerListTools
    \/ UserInput
    \/ CloseDone
    \/ ModelRespond
    \/ ModelFail
    \/ ToolResolve
    \/ ToolReject
    \/ TransportClose
    \/ ServerCallTool
    \/ WeatherTimer

Spec == Init /\ [][Next]_vars

\* get_weather is not in the repertoire of SpecChat: no timer is ever set
NextChat ==
    \/ ClientStart
    \/ ClientConnected
    \/ ClientConnectFail
    \/ ListDone
    \/ ListFail
    \/ ServerStart
    \/ ServerStartFail
    \/ ServerListTools
    \/ UserInput
    \/ CloseDone
    \/ ModelRespond
    \/ ModelFail
    \/ ToolResolve
    \/ ToolReject
    \/ TransportClose
    \/ ServerCallTool

SpecChat == InitChat /\ [][NextChat]_vars

(***************************************************************************)
(* The declared input schema of a tool, read as JSON Schema.               *)
(***************************************************************************)
Present(v) == v.t # "undefined"

\* field f of args breaks the declared schema: a required field is missing,
\* a present field has another type, or an enum field holds another value
ViolatesField(schema, args, f) ==
    LET v == args[f]
        p == schema.properties[f]
    IN  IF Present(v)
        THEN v.t # p.type \/ (p.hasEnum /\ v.s \notin Range(p.enum))
        ELSE f \in Range(schema.required)

SatisfiesSchema(schema, hasArgs, args) ==
    hasArgs /\ \A f \in DOMAIN schema.properties : ~ViolatesField(schema, args, f)

\* the error kinds of the dispatcher, as the caller sees them
IsNotFound(r) == ~r.ok /\ r.code = "MethodNotFound"
IsInvalidInput(r) == ~r.ok /\ r.code = "InvalidParams" /\ r.message.text = "Invalid input: "

\* every response the server has written for the request under way
Responses == Range(toClient) \cup {hostGot}
IsToolResponse(r) == r.req.method = "tools/call"

(***************************************************************************)
(* Claims about the dispatcher (SpecServer).                               *)
(***************************************************************************)

\* C8: a tools/call whose name is not exactly a registered name is answered
\* with a NotFound error whose message carries that very name, and no tool
\* handler is entered for it.
C8_UnknownNameIsNotFound ==
    /\ \A r \in Responses :
          IsToolResponse(r) /\ r.req.name \notin RegisteredToolNames
          => /\ IsNotFound(r)
             /\ r.message.text = "Unknown tool: "
             /\ r.message.name = r.req.name
             /\ handlerCalls = <<>>
             /\ logicRuns = <<>>
    /\ \A i \in DOMAIN timers : timers[i].req.name \in RegisteredToolNames

C8_Witness ==
    \E i \in DOMAIN toClient :
        /\ toClient[i].req.name \in {"Calculator", "get_weather "}
        /\ IsNotFound(toClient[i])
        /\ toClient[i].req.hasArgs
        /\ toClient[i].req.args.operation = JStr("multiply")

\* C9 (as claimed): arguments that satisfy the declared input schema of a
\* registered tool never get an InvalidInput error.
C9_ValidArgsNeverInvalidInput ==
    \A r \in Responses :
        /\ IsToolResponse(r)
        /\ r.req.name \in RegisteredToolNames
        /\ SatisfiesSchema(ToolDefinition(r.req.name).inputSchema, r.req.hasArgs, r.req.args)
        => ~IsInvalidInput(r)

\* C10: an argument mapping that breaks the declared schema in field f gets
\* an InvalidInput error whose message names f, and the logic of the tool
\* does not run.
C10_ViolationIsInvalidInput ==
    /\ \A r \in Responses :
          IsToolResponse(r) /\ r.req.name \in RegisteredToolNames /\ r.req.hasArgs
          => LET schema == ToolDefinition(r.req.name).inputSchema
             IN  \A f \in DOMAIN schema.properties :
                    ViolatesField(schema, r.req.args, f)
                    => /\ IsInvalidInput(r)
                       /\ \E issue \in r.message.issues : issue.path = f
                       /\ logicRuns = <<>>
    /\ \A i \in DOMAIN timers :
          SatisfiesSchema(ToolDefinition(timers[i].req.name).inputSchema,
                          timers[i].req.hasArgs, timers[i].req.args)

C10_Witness ==
    \E i \in DOMAIN toClient :
        /\ toClient[i].req =
              ToolCall("calculator", TRUE,
                       Args(JStr("add"), JStr("x"), JNum(2), Undefined, Undefined))
        /\ IsInvalidInput(toClient[i])
        /\ toClient[i].message.issues = {Issue("a", "invalid_type")}

(***************************************************************************)
(* Claims about the agentic loop of the client (Spec).                     *)
(***************************************************************************)
Last(seq) == seq[Len(seq)]
IsCallRequest(req) == req.method = "tools/call"
IsCallResponse(r) == r.req.method = "tools/call"
Outstanding ==
    Len(SelectSeq(toServer, IsCallRequest)) + Len(timers)
    + Len(SelectSeq(toClient, IsCallResponse))
ErrorLines == SelectSeq(console, LAMBDA l : l.kind = "error")
AnswerLines == SelectSeq(console, LAMBDA l : l.kind = "answer")
IsDispatcherError(inv) ==
    ~inv.ok /\ inv.response.code \in {"MethodNotFound", "InvalidParams"}

\* C1: every batch handed to the model holds exactly as many results as the
\* model response before it held function calls, in every round of the turn.
C1_BatchSizeMatchesRequests ==
    /\ Len(sent) <= Len(received) + 1
    /\ \A k \in 2..Len(sent) :
          /\ sent[k].kind = "batch"
          /\ Len(received[k - 1].calls) > 0
          /\ Len(sent[k].parts) = Len(received[k - 1].calls)

C1_Witness ==
    /\ Len(sent) = 3
    /\ Len(sent[2].parts) = 1
    /\ Len(sent[3].parts) = 2
    /\ pc = "model"

\* C2: the calls of one response are answered by one message whose i-th
\* result carries the name of the i-th call and the text the server returned
\* for that very call.
C2_ResultsInRequestOrder ==
    /\ \A k \in 2..Len(sent) :
          \A i \in DOMAIN sent[k].parts :
             /\ k - 1 \in DOMAIN received
             /\ i \in DOMAIN received[k - 1].calls
             /\ sent[k].parts[i].name = received[k - 1].calls[i].name
    /\ pendingModel.kind = "batch"
       => /\ Len(sent) = Len(received) + 1
          /\ pendingModel = Last(sent)
          /\ \A i \in DOMAIN pendingModel.parts :
                /\ i \in DOMAIN invoked
                /\ invoked[i].ok
                /\ invoked[i].call = Last(received).calls[i]
                /\ invoked[i].response.req =
                      ToolCall(invoked[i].call.name, TRUE, invoked[i].call.args)
                /\ Len(invoked[i].response.content) = 1
                /\ pendingModel.parts[i].result = <<invoked[i].response.content[1].text>>

C2_Witness ==
    /\ pendingModel.kind = "batch"
    /\ Len(pendingModel.parts) = 2
    /\ pendingModel.parts[1].name = "calculator"
    /\ pendingModel.parts[2].name = "get_weather"
    /\ pendingModel.parts[2].result[1].city = "Tokyo"

\* C3 (as claimed): an error the dispatcher reports for a call is collected
\* as the result of that call and is not shown to the user as an error.
C3_DispatcherErrorIsCollected ==
    \A i \in DOMAIN invoked :
        IsDispatcherError(invoked[i])
        => /\ Len(toolResults) >= i
           /\ toolResults[i].name = invoked[i].call.name
           /\ ErrorLines = <<>>

\* C4: a call that produces no result ends the turn with one error shown to
\* the user: no batch goes to the model for that round, the results gathered
\* so far are dropped, and no later call of the response reaches the server.
C4_FailedCallAbortsTurn ==
    \A i \in DOMAIN invoked :
        ~invoked[i].ok
        => /\ i = Len(invoked)
           /\ i <= Len(functionCalls)
           /\ invoked[i].call = functionCalls[i]
           /\ pc = "prompt"
           /\ Len(ErrorLines) = 1
           /\ Last(console).kind = "error"
           /\ Last(console).stream = "stderr"
           /\ pendingModel = NoMsg
           /\ Len(sent) = round
           /\ Len(toolResults) = i - 1
           /\ Outstanding = 0

C4_Witness ==
    /\ functionCalls = <<CallMultiply, CallDivideByZero>>
    /\ Len(invoked) = 2
    /\ invoked[1].ok
    /\ IsDispatcherError(invoked[2])
    /\ Len(toolResults) = 1
    /\ pc = "prompt"

\* C5: the calls of a response go to the server one at a time in listed
\* order; the call for position i+1 is issued after the call for position i
\* has completed, so the server never has two invocations outstanding.
C5_OneInvocationAtATime ==
    /\ Outstanding <= 1
    /\ \A i \in DOMAIN invoked :
          i \in DOMAIN functionCalls /\ invoked[i].call = functionCalls[i]
    /\ pc = "tool"
       => /\ Outstanding = 1
          /\ callIdx \in DOMAIN functionCalls
          /\ Len(invoked) = callIdx - 1
          /\ LET req == ToolCall(functionCalls[callIdx].name, TRUE,
                                 functionCalls[callIdx].args)
             IN  /\ \A i \in DOMAIN toServer : toServer[i] = req
                 /\ \A i \in DOMAIN timers : timers[i].req = req
                 /\ \A i \in DOMAIN toClient : toClient[i].req = req
    /\ pc # "tool" => Outstanding = 0

C5_Witness ==
    /\ pc = "tool"
    /\ functionCalls = <<CallMultiply, CallWeather>>
    /\ callIdx = 2
    /\ Len(timers) = 1
    /\ Len(invoked) = 1

\* C6: a response without function calls has its text printed exactly once,
\* nothing more is sent to the model and the prompt is issued again; no
\* text is printed for a response that carries function calls.
C6_FinalTextShownOnce ==
    /\ received # <<>> /\ Len(Last(received).calls) = 0
       => /\ pc = "prompt"
          /\ AnswerLines = <<AnswerLine(Last(received).text)>>
          /\ Last(console) = AnswerLine(Last(received).text)
          /\ pendingModel = NoMsg
          /\ Len(sent) = Len(received)
          /\ Outstanding = 0
    /\ AnswerLines # <<>> => received # <<>> /\ Len(Last(received).calls) = 0
    /\ \A k \in 1..(Len(received) - 1) : Len(received[k].calls) > 0

C6_Witness ==
    /\ Len(received) = 2
    /\ received[1].text = "Let me check."
    /\ Len(Last(received).calls) = 0
    /\ AnswerLines = <<AnswerLine("It is 100.")>>
    /\ pc = "prompt"

\* C7: a failed model request ends the turn and nothing else: the error is
\* printed once, the message is not sent again, no call is repeated, the
\* process keeps running and the prompt is issued again.
C7_ModelFailureAbortsTurnOnly ==
    (\E i \in DOMAIN console : console[i].kind = "error" /\ console[i].err = ModelErr)
    => /\ pc = "prompt"
       /\ Len(ErrorLines) = 1
       /\ Last(console) = ErrorLine(ModelErr)
       /\ pendingModel = NoMsg
       /\ Len(sent) = Len(received) + 1
       /\ Len(invoked) = Len(functionCalls)
       /\ Outstanding = 0

C7_Witness ==
    /\ Len(sent) = 2
    /\ console # <<>>
    /\ Last(console) = ErrorLine(ModelErr)
    /\ Last(sent).kind = "batch"
    /\ Len(received) = 1
    /\ pc = "prompt"

(***************************************************************************)
(* Claims about the calculator's own failures and results.                 *)
(***************************************************************************)
IsDivideByZero(req) ==
    /\ req.method = "tools/call"
    /\ req.name = "calculator"
    /\ req.hasArgs
    /\ req.args.operation = JStr("divide")
    /\ req.args.a.t = "number"
    /\ req.args.b = JNum(0)

\* The error kind a caller reads off a response is the McpError code.
SchemaViolationCode == "InvalidParams"

\* C11: calculator with operation divide and b = 0 answers with an error whose
\* kind differs from the kind of a schema violation (InvalidInput) and from
\* NotFound, and the response carries no result value.
C11_DivideByZeroIsDomainError ==
    \A r \in Responses :
        IsDivideByZero(r.req) =>
            /\ ~r.ok
            /\ r.content = <<>>
            /\ r.code # SchemaViolationCode
            /\ ~IsNotFound(r)

(***************************************************************************)
(* Claims about the dispatcher as a whole.                                 *)
(***************************************************************************)
\* The responses a server that has just started gives to a request.
FreshAnswers(req) ==
    CASE req.method = "tools/call" ->
            IF ToolSwitch(req.name) = "handleCalculator"
            THEN {Respond(req, handleCalculator(req.hasArgs, req.args))}
            ELSE IF ToolSwitch(req.name) = "handleGetWeather"
            THEN IF WeatherInputSchema(req.hasArgs, req.args) # {}
                 THEN {Respond(req, Throw("InvalidParams",
                          [text |-> "Invalid input: ",
                           issues |-> WeatherInputSchema(req.hasArgs, req.args),
                           name |-> ""]))}
                 ELSE {Respond(req, Return(<<TextItem(WeatherText(WeatherParsed(req.args), data))>>)) :
                          data \in WeatherData(ToLowerCase(WeatherParsed(req.args).city))}
            ELSE {Respond(req, UnknownTool(req.name))}
      [] req.method = "tools/list" -> {Respond(req, ReturnTools(ListTools))}
      [] req.method = "resources/list" -> {Respond(req, ReturnResources(ListResources))}
      [] req.method = "resources/read" -> {Respond(req, ReadResource(req.name))}
      [] req.method = "prompts/get" -> {Respond(req, GetPrompt(req.name, req.args))}
      [] OTHER -> {}

ErrorCodes == {"MethodNotFound", "InvalidParams", "InvalidRequest", "InternalError"}

IsStructuredError(r) ==
    /\ r.code \in ErrorCodes
    /\ r.message.text # ""
    /\ r.content = <<>> /\ r.contents = <<>> /\ r.messages = <<>> /\ r.tools = <<>>
    /\ r.resources = <<>>

Answered == (Responses \ {NoResponse}) # {} \/ failures > 0

\* C12: no request ends the server process; every failing request is answered
\* with a structured error response, and whatever failed before, a request is
\* answered as a server that never saw the failing requests answers it.
C12_NoRequestCrashesDispatcher ==
    /\ Answered => srv = "running"
    /\ \A r \in Responses \ {NoResponse} :
          /\ r \in FreshAnswers(r.req)
          /\ ~r.ok => IsStructuredError(r)

\* a note is read after the host has seen MaxFailures errors, among them an
\* unreadable URI
C12_Witness ==
    /\ failures = MaxFailures
    /\ hostGot.ok
    /\ hostGot.req = ResourceRead("notes://1")
    /\ hostGot.contents # <<>>

\* a calculator call whose arguments the handler computes on
IsComputable(req) ==
    /\ req.method = "tools/call"
    /\ req.name = "calculator"
    /\ req.hasArgs
    /\ req.args.operation.t = "string"
    /\ req.args.operation.s \in {"add", "subtract", "multiply", "divide"}
    /\ req.args.a.t = "number"
    /\ req.args.b.t = "number"
    /\ ~(req.args.operation.s = "divide" /\ req.args.b.n = 0)

\* value, a fraction num/den, is the number a (operation) b
IsValueOf(value, a, operation, b) ==
    /\ value.den > 0
    /\ CASE operation = "add" -> value.num = (a + b) * value.den
         [] operation = "subtract" -> value.num = (a - b) * value.den
         [] operation = "multiply" -> value.num = (a * b) * value.den
         [] operation = "divide" -> value.num * b = a * value.den

\* C13: for add, subtract, multiply and divide on numbers a and b (b # 0 for
\* divide) the calculator answers with success and exactly one text item
\* "<a> <operation> <b> = <value>", value being a+b, a-b, a*b or a/b.
C13_CalculatorTextAndValue ==
    \A r \in Responses :
        IsComputable(r.req) =>
            /\ r.ok
            /\ Len(r.content) = 1
            /\ r.content[1].type = "text"
            /\ LET text == r.content[1].text
                   a == r.req.args.a.n
                   b == r.req.args.b.n
                   operation == r.req.args.operation.s
               IN  /\ text.kind = "calculator"
                   /\ text.a = a /\ text.operation = operation /\ text.b = b
                   /\ IsValueOf([num |-> text.num, den |-> text.den], a, operation, b)
                   /\ (operation = "multiply" /\ a = 25 /\ b = 4) =>
                          text.num = 100 /\ text.den = 1
                   /\ (operation = "multiply" /\ a = 12 /\ b = 7) =>
                          text.num = 84 /\ text.den = 1

\* "25 multiply 4 = 100" and a division with a fractional value were answered
C13_Witness ==
    /\ hostGot.req = ToolCall("calculator", TRUE,
                              Args(JStr("divide"), JNum(25), JNum(4), Undefined, Undefined))
    /\ hostGot.ok
    /\ hostGot.content[1].text.den = 4

(***************************************************************************)
(* Claims about tools/list.                                                *)
(***************************************************************************)
\* the names the switch of the tools/call handler sends to a handler
DispatchedToolNames == {name \in HostToolNames : ToolSwitch(name) # "default"}

\* the declaration a tool module exports next to its handler
ExportedDefinition(name) ==
    CASE name = "calculator" -> calculatorToolDefinition
      [] name = "get_weather" -> weatherToolDefinition

ListedNames(r) == {r.tools[i].name : i \in DOMAIN r.tools}

\* C14: tools/list answers with exactly one entry per tool, each entry being
\* the declaration the tool was registered with, and the names it lists are
\* exactly the names tools/call dispatches to a handler.
C14_ListedToolsAreDispatchedTools ==
    \A r \in Responses :
        r.req.method = "tools/list" =>
            /\ r.ok
            /\ \A i, j \in DOMAIN r.tools : r.tools[i].name = r.tools[j].name => i = j
            /\ ListedNames(r) = DispatchedToolNames
            /\ \A i \in DOMAIN r.tools : r.tools[i] = ExportedDefinition(r.tools[i].name)

C14_Witness ==
    /\ hostGot.req.method = "tools/list"
    /\ Len(hostGot.tools) = 2

(***************************************************************************)
(* Claims about the schema translator.                                     *)
(***************************************************************************)
PropertiesOf(tool) ==
    IF Has(tool.inputSchema, "properties") THEN tool.inputSchema.properties ELSE EmptyObject

\* a description that is missing has no text
DescriptionOf(object) == IF Has(object, "description") THEN object.description ELSE ""

RequiredOf(tool) ==
    IF Has(tool.inputSchema, "required") THEN tool.inputSchema.required ELSE <<>>

\* every (declaration, function declaration) pair a run of the translator made
Translations ==
    {[tool |-> mcpTools[i], fn |-> translated[n][i]] :
        n \in DOMAIN translated, i \in DOMAIN mcpTools}

\* C15: the function declaration has the tool's name and description, the same
\* property names, each property's description and enum values unchanged with
\* no enum where the input has none, and the same list of required fields.
C15_TranslationPreservesDeclaration ==
    \A t \in Translations :
        LET props == PropertiesOf(t.tool)
            out == t.fn.parameters.properties
        IN  /\ t.fn.name = t.tool.name
            /\ t.fn.description = DescriptionOf(t.tool)
            /\ DOMAIN out = DOMAIN props
            /\ \A key \in DOMAIN props :
                  /\ out[key].description = DescriptionOf(props[key])
                  /\ out[key].hasEnum = props[key].hasEnum
                  /\ props[key].hasEnum => out[key].enum = props[key].enum
                  /\ ~props[key].hasEnum => out[key].enum = <<>>
            /\ t.fn.parameters.required = RequiredOf(t.tool)

\* a declaration with two properties, one with an enum and one without, one
\* without a description, and a required list, has been translated
C15_Witness ==
    \E t \in Translations :
        /\ Has(t.tool.inputSchema, "properties")
        /\ DOMAIN t.tool.inputSchema.properties = {"p", "q"}
        /\ t.tool.inputSchema.properties["p"].hasEnum
        /\ ~t.tool.inputSchema.properties["q"].hasEnum
        /\ ~Has(t.tool.inputSchema.properties["q"], "description")
        /\ RequiredOf(t.tool) = <<"q", "p">>
        /\ t.fn.parameters.properties["p"].enum = <<"celsius", "fahrenheit">>

\* the type tag the claim assigns to an input type string
ExpectedTag(type) ==
    CASE type = "string" -> "STRING"
      [] type = "number" -> "NUMBER"
      [] type = "integer" -> "INTEGER"
      [] type = "boolean" -> "BOOLEAN"
      [] type = "array" -> "ARRAY"
      [] type = "object" -> "OBJECT"
      [] OTHER -> "STRING"

\* C16: each of the six primitive type strings is translated to its own type
\* tag, and every other type string is translated to the string tag.
C16_TypeMappingIsTotal ==
    \A t \in Translations :
        \A key \in DOMAIN PropertiesOf(t.tool) :
            t.fn.parameters.properties[key].type = ExpectedTag(PropertiesOf(t.tool)[key].type)

\* everything but the list of results the translator appends to
StateBesidesResults ==
    <<serverVars, sessionVars, apiKey, exitCode, spawned, mcpTools, pc, connected, pendingModel,
      functionCalls, callIdx, toolResults, round, sent, received, invoked, console>>

DiagnosticOf(req) ==
    CASE req.method = "tools/call" -> StderrLine("tool:call", req.name)
      [] req.method = "resources/read" -> StderrLine("resource:read", req.name)
      [] req.method = "prompts/get" -> StderrLine("prompt:get", req.name)

IsLogged(req) == req.method \in {"tools/call", "resources/read", "prompts/get"}

\* C18: the server's own code writes nothing to stdout, at startup or in a
\* handler, and a tools/call, resources/read or prompts/get request has
\* written exactly one stderr line naming its tool, URI or prompt by the time
\* it is dispatched, whether it is then answered with a result or an error.
C18_DiagnosticsOnStderrOnly ==
    /\ stdoutWrites = <<>>
    /\ \A r \in Responses : IsLogged(r.req) => diag = <<DiagnosticOf(r.req)>>
    /\ \A i \in DOMAIN timers : diag = <<DiagnosticOf(timers[i].req)>>
    /\ handlerCalls # <<>> => Len(diag) = 1 /\ diag[1].tag = "tool:call"

\* a failed resource read has been answered, after the startup lines went to stderr
C18_Witness ==
    /\ hostGot.req = ResourceRead("notes://9")
    /\ ~hostGot.ok
    /\ diag = <<StderrLine("resource:read", "notes://9")>>

\* the credential is unset, empty or still the placeholder of .env.example
IsUnusableKey(key) ==
    key \in {Undefined, JStr(""), JStr("your_gemini_api_key_here")}

InChatLoop == pc \in {"prompt", "model", "tool", "closing", "closed"}

\* C19: with the credential unset, empty or the placeholder, the client ends
\* with a nonzero status and, up to and after that, no server has been
\* spawned, no tool listing and no model request has been made and no prompt
\* has been issued.
C19_MissingKeyExitsFirst ==
    IsUnusableKey(apiKey) =>
        /\ pc \in {"start", "exited"}
        /\ ~spawned /\ srv = "off" /\ ~connected
        /\ toServer = <<>> /\ toClient = <<>> /\ mcpTools = <<>> /\ translated = <<>>
        /\ pendingModel = NoMsg /\ sent = <<>> /\ received = <<>>
        /\ pc = "start" => exitCode = 0 /\ console = <<>>
        /\ pc = "exited" => exitCode # 0 /\ console = <<Line("stderr", "nokey")>>

C19_Witness ==
    /\ apiKey = JStr("your_gemini_api_key_here")
    /\ pc = "exited"
    /\ exitCode = 1
    /\ ~spawned

\* C20: when the server cannot connect its transport it writes a line to
\* stderr and exits nonzero; when the client cannot connect or cannot list
\* the tools it writes the error to stderr and exits nonzero; in both cases
\* the chat loop is not entered, which happens only after a completed setup.
C20_SetupFailureIsFatal ==
    /\ srv = "exited" =>
          /\ srvExit # 0
          /\ diag # <<>> /\ Last(diag).tag = "fatal"
          /\ stdoutWrites = <<>>
          /\ ~InChatLoop
    /\ (pc = "exited" /\ ~IsUnusableKey(apiKey)) =>
          /\ exitCode # 0
          /\ Last(console).kind = "fatal" /\ Last(console).stream = "stderr"
          /\ translated = <<>> /\ sent = <<>>
    /\ InChatLoop =>
          /\ exitCode = 0
          /\ spawned /\ srv = "running"
          /\ mcpTools = ListTools /\ translated # <<>>

\* the server failed to connect its transport and the client, in turn, failed
\* to connect to it
C20_Witness ==
    /\ srv = "exited" /\ srvExit = 1
    /\ diag = <<StderrLine("fatal", "Fatal error")>>
    /\ pc = "exited" /\ exitCode = 1
    /\ console = <<Line("stdout", "connecting"), FatalLine(ConnectionClosedErr)>>

(***************************************************************************)
(* Claims about the tool registry, the chat history and the turn.          *)
(***************************************************************************)

\* the declarations the server module holds when it starts
StartupDeclarations == <<calculatorToolDefinition, weatherToolDefinition>>

IsListResponse(r) == r.req.method = "tools/list"

\* C21: the tool registry is fixed for the life of the server: whatever
\* requests were answered before, the declarations the server holds and the
\* declarations every tools/list answer carries are the ones of startup.
C21_RegistryIsFixed ==
    /\ registry = StartupDeclarations
    /\ \A r \in Responses :
          IsListResponse(r) => r.ok /\ r.tools = StartupDeclarations

\* tools/list answered after requests that failed
C21_Witness ==
    /\ failures = MaxFailures
    /\ IsListResponse(hostGot)
    /\ hostGot.tools = StartupDeclarations

IsPrefix(p, q) == Len(p) <= Len(q) /\ SubSeq(q, 1, Len(p)) = p

\* C22: the one chat session keeps everything it holds: a step leaves the
\* history as it is or appends to it, so every content present at one prompt
\* is still there, in the same place, at every later prompt.
C22_HistoryOnlyGrows == [][IsPrefix(history, history')]_vars

\* the prompt after the second question, with both exchanges in the history
C22_Witness ==
    /\ pc = "prompt"
    /\ turnsLeft = 0
    /\ Len(history) >= 4
    /\ history[1].kind = "user"
    /\ \E i \in 3..Len(history) : history[i].kind = "user"

IsToolRequest(content) == content.kind = "model" /\ content.calls
IsToolResult(content) == content.kind = "batch" /\ content.calls

\* the client waits for the user, or has just handed the user's text to the session
AtUserText == pc = "prompt" \/ (pc = "model" /\ pendingModel.kind = "user")

\* C28: whenever the client waits for the user's text or sends it, every
\* model content of the history that carries function calls is directly
\* followed by the batch of their results.
C28_NoUnansweredToolRequest ==
    AtUserText =>
       \A i \in DOMAIN history :
          IsToolRequest(history[i]) =>
             i < Len(history) /\ IsToolResult(history[i + 1])

(***************************************************************************)
(* The turn under fair scheduling: a pending model request settles, the    *)
(* server's event loop takes the request in its pipe, a timer fires and a  *)
(* pending callTool settles once its response has arrived.                 *)
(***************************************************************************)
Fairness ==
    /\ WF_vars(ModelRespond \/ ModelFail)
    /\ WF_vars(ServerCallTool)
    /\ WF_vars(WeatherTimer)
    /\ WF_vars(ToolResolve)
    /\ WF_vars(ToolReject)

\* SpecLive: one question to a model that requests get_weather (answered by
\* a timer) and an unregistered tool (rejected); whether a turn ends depends
\* on how each call settles, not on its arguments.
InitLive == ClientInit /\ repertoire = {CallWeather, CallUnknown} /\ turnsLeft = 1

SpecLive == InitLive /\ [][Next]_vars /\ Fairness

InTurn == pc \in {"model", "tool"}
TurnEnded == pc = "prompt" /\ sent # <<>>
FinalAnswer ==
    /\ received # <<>>
    /\ Len(Last(received).calls) = 0
    /\ Len(AnswerLines) = 1
    /\ ErrorLines = <<>>
TurnFailed == Len(ErrorLines) = 1 /\ Last(console).kind = "error"

\* C23: the loop has no round limit of its own.  A turn is over exactly
\* when the model answered without function calls or a request failed: an
\* ended turn shows the final answer or one error, and a turn in progress
\* has seen neither.  Every turn in progress comes to its end.
C23_TurnEndsOnTextOrFailureOnly ==
    /\ [](TurnEnded => (FinalAnswer \/ TurnFailed))
    /\ [](InTurn => (/\ ErrorLines = <<>>
                     /\ AnswerLines = <<>>
                     /\ \A k \in DOMAIN received : Len(received[k].calls) > 0))
    /\ (InTurn ~> TurnEnded)

\* the final answer after as many tool rounds as the model asks for
C23_Witness ==
    /\ TurnEnded
    /\ FinalAnswer
    /\ round = MaxRounds
    /\ Len(received) = MaxRounds + 1

\* every name of the list is a key of the object
RequiredAreProperties(required, properties) ==
    \A i \in DOMAIN required : required[i] \in DOMAIN properties

\* C24: in every declaration the server holds, and in every function
\* declaration the client made of the listed tools, each name of `required`
\* is a key of `properties`.
C24_RequiredNamesAreDeclared ==
    /\ \A tool \in Range(registry) :
          RequiredAreProperties(tool.inputSchema.required, tool.inputSchema.properties)
    /\ \A n \in DOMAIN translated :
          \A i \in DOMAIN translated[n] :
             RequiredAreProperties(translated[n][i].parameters.required,
                                   translated[n][i].parameters.properties)

\* both registered tools listed and translated
C24_Witness ==
    /\ pc = "prompt"
    /\ Len(translated) = 1
    /\ Len(translated[1]) = 2
    /\ translated[1][1].parameters.required = <<"operation", "a", "b">>
    /\ translated[1][2].parameters.required = <<"city">>
    /\ DOMAIN translated[1][2].parameters.properties = {"city", "unit"}

(***************************************************************************)
(* Claims about prompts and resources (SpecServer).                        *)
(***************************************************************************)
\* the prompts of prompts/list with their arguments as documented
ListedPrompts ==
    {[name |-> "code-review", required |-> "language", optional |-> "focus",
      allowed |-> {"security", "performance", "readability", "all"}, default |-> "all"],
     [name |-> "explain-concept", required |-> "concept", optional |-> "level",
      allowed |-> {"beginner", "intermediate", "expert"}, default |-> "beginner"]}

IsTextOrAbsent(v) == v.t \in {"undefined", "string"}

\* the required argument is missing or empty, or the optional one is not allowed
BadPromptArguments(p, args) ==
    \/ args[p.required].t = "undefined"
    \/ args[p.required].s = ""
    \/ args[p.optional].t = "string" /\ args[p.optional].s \notin p.allowed

\* C25: prompts/get with a name that is not listed is answered with
\* MethodNotFound carrying the name; for a listed prompt a missing or empty
\* required argument or an optional argument outside its values is answered
\* with InvalidParams; otherwise the answer is exactly one user message, made
\* with the default where the optional argument was omitted.
C25_PromptErrorsAndDefaults ==
    \A r \in Responses :
       r.req.method = "prompts/get" =>
          /\ (\A p \in ListedPrompts : p.name # r.req.name)
             => /\ ~r.ok
                /\ r.code = "MethodNotFound"
                /\ r.message.name = r.req.name
          /\ \A p \in ListedPrompts :
                (/\ p.name = r.req.name
                 /\ IsTextOrAbsent(r.req.args[p.required])
                 /\ IsTextOrAbsent(r.req.args[p.optional]))
                => IF BadPromptArguments(p, r.req.args)
                   THEN ~r.ok /\ r.code = "InvalidParams"
                   ELSE /\ r.ok
                        /\ Len(r.messages) = 1
                        /\ r.messages[1].role = "user"
                        /\ r.messages[1].text.subject = r.req.args[p.required].s
                        /\ r.messages[1].text.mode =
                              IF r.req.args[p.optional].t = "undefined"
                              THEN p.default
                              ELSE r.req.args[p.optional].s

\* explain-concept answered with the default level
C25_Witness ==
    /\ hostGot.req.method = "prompts/get"
    /\ hostGot.req.name = "explain-concept"
    /\ hostGot.req.args.level = Undefined
    /\ hostGot.ok
    /\ Len(hostGot.messages) = 1
    /\ hostGot.messages[1].text.mode = "beginner"

\* operations the client is waiting for: the user's line, the model, the server
PendingOperations ==
    asking + (IF pendingModel = NoMsg THEN 0 ELSE 1) + Outstanding

\* the step hands the text of a new question to the session
NewTurnStarts == pendingModel'.kind = "user" /\ pendingModel' # pendingModel

\* C26: the client waits for at most one thing at a time.  While a model
\* request or a tool invocation is pending no prompt is out and no turn
\* starts; a prompt is out exactly once whenever the callback is not running,
\* and after a turn only once that turn has shown its answer or its error.
C26_OneOperationOutstanding ==
    /\ [](/\ PendingOperations <= 1
          /\ InTurn => asking = 0 /\ PendingOperations = 1
          /\ pc = "prompt" <=> asking = 1
          /\ (asking = 1 /\ sent # <<>>) => (FinalAnswer \/ TurnFailed))
    /\ [][NewTurnStarts => (asking = 1 /\ PendingOperations = 1 /\ asking' = 0)]_vars

\* the prompt after a turn of two rounds that ended with the answer
C26_Witness ==
    /\ asking = 1
    /\ Len(sent) = 3
    /\ FinalAnswer
    /\ PendingOperations = 1

\* C27: in a turn, model requests and tool phases alternate.  The first
\* message to the model is the user's text and every later one is a batch;
\* a tool phase runs only after a response with function calls, one phase
\* per such response; a phase that has all its results is followed by the one
\* model request that carries exactly these results, with no prompt between.
C27_ModelAndToolPhasesAlternate ==
    /\ sent # <<>>
       => /\ sent[1].kind = "user"
          /\ \A k \in 2..Len(sent) : sent[k].kind = "batch"
          /\ Len(received) <= Len(sent)
          /\ Len(sent) <= Len(received) + 1
          /\ Len(sent) <= round + 1
    /\ pc = "tool"
       => /\ received # <<>>
          /\ Len(Last(received).calls) >= 1
          /\ functionCalls = Last(received).calls
          /\ Len(sent) = Len(received)
          /\ round = Len(received)
          /\ Len(toolResults) < Len(functionCalls)
    /\ pc = "model"
       => /\ Len(sent) = Len(received) + 1
          /\ pendingModel = Last(sent)
          /\ round = Len(received)
          /\ round >= 1
             => /\ pendingModel.kind = "batch"
                /\ pendingModel.parts = toolResults
                /\ Len(toolResults) = Len(functionCalls)
    /\ (functionCalls # <<>> /\ Len(toolResults) = Len(functionCalls))
       => /\ Len(sent) = round + 1
          /\ Last(sent).kind = "batch"
          /\ Last(sent).parts = toolResults
          /\ asking = 1 => Last(console) = ErrorLine(ModelErr)

\* the second batch of a turn on its way to the model
C27_Witness ==
    /\ pc = "model"
    /\ round = 2
    /\ Len(sent) = 3
    /\ sent[1].kind = "user"
    /\ Len(sent[3].parts) = 2
    /\ Len(received) = 2

\* the client has said goodbye: the connection is closing or closed
Leaving == pc \in {"closing", "closed"}

\* C29: a line that is "exit" once trimmed and lower-cased closes the
\* connection and the reader, with nothing sent to the model and no prompt
\* ever after; a line that is empty once trimmed starts no turn and leaves
\* the prompt and the conversation as they were; every other line is sent to
\* the model exactly as entered.
C29_ExitEmptyAndOtherInput ==
    /\ [](Leaving
          => /\ asking = 0
             /\ pendingModel = NoMsg
             /\ sent = <<>>
             /\ Outstanding = 0
             /\ pc = "closing" => userInput # <<>> /\ TrimLower(userInput[1]) = "exit"
             /\ pc = "closed" => ~connected)
    /\ [](InTurn
          => /\ userInput # <<>>
             /\ Trim(userInput[1]) # ""
             /\ TrimLower(userInput[1]) # "exit"
             /\ sent[1].kind = "user"
             /\ sent[1].text = userInput[1])
    /\ [][/\ Leaving => Leaving' /\ history' = history
          /\ (pc = "prompt" /\ pc' = "prompt")
             => /\ asking' = 1
                /\ history' = history
                /\ sent' = sent
                /\ pendingModel' = pendingModel]_vars

\* " Exit " entered after a turn: the connection is closing, the history is kept
C29_Witness ==
    /\ pc = "closing"
    /\ userInput = <<" Exit ">>
    /\ history # <<>>
    /\ asking = 0
    /\ connected

\* notes URIs whose id no note has, and URIs of another scheme
UnknownNoteUris == {"notes://9"}
OutsideNotesScheme == {"Notes://1", "file:///etc/passwd"}

IsReadOf(r, uri) == r.req.method = "resources/read" /\ r.req.name = uri

\* C30: every URI of a resources/list answer is read with success, the one
\* content of the answer carrying that URI; a notes URI of an id that is not
\* in the store and a URI outside the notes scheme are answered with an
\* error that carries no content.
C30_ListedResourcesAreReadable ==
    \A r \in Responses :
       /\ r.req.method = "resources/list"
          => /\ r.ok
             /\ r.resources # <<>>
             /\ \A i \in DOMAIN r.resources :
                   LET uri == r.resources[i].uri
                       read == ReadResource(uri)
                   IN  /\ uri \in UriStrings
                       /\ read.ok
                       /\ Len(read.contents) = 1
                       /\ read.contents[1].uri = uri
       /\ r.req.method = "resources/read"
          => /\ (\E i \in DOMAIN ListResources : ListResources[i].uri = r.req.name)
                => /\ r.ok
                   /\ Len(r.contents) = 1
                   /\ r.contents[1].uri = r.req.name
             /\ r.req.name \in UnknownNoteUris \cup OutsideNotesScheme
                => /\ ~r.ok
                   /\ r.code \in ErrorCodes
                   /\ r.contents = <<>>
                   /\ r.content = <<>>

\* the second note, as listed, read by the host
C30_Witness ==
    /\ IsReadOf(hostGot, "notes://2")
    /\ hostGot.ok
    /\ hostGot.contents[1].uri = "notes://2"
    /\ hostGot.contents[1].text.title = "MCP Transport Types"

====
